---- MODULE Spec2Model ----
(***************************************************************************)
(* Model of workflow-rs' typed property accessors over a JavaScript        *)
(* object (wasm/src/extensions/object.rs, trait ObjectExtension), under    *)
(* Spec, and of the callbacks that nw/src/media.rs and nw/src/shortcut.rs  *)
(* keep in the application's callback registry, under SpecNw.              *)
(*                                                                         *)
(* The object is the host's: a set of string-keyed slots, each absent, a   *)
(* data property holding a JavaScript value, or an accessor property whose *)
(* getter and setter throw.  The object is extensible, sealed or frozen.   *)
(* Every accessor is one js_sys::Reflect call (get / set / deleteProperty) *)
(* followed by a conversion, so each is modelled as one atomic action that *)
(* records the call, the object before it and the returned Result.         *)
(***************************************************************************)
EXTENDS Integers, Sequences, FiniteSets, TLC

VARIABLES
  obj,      \* the host object the accessors borrow
  pre,      \* history: obj before the last call
  call,     \* history: the last call and its arguments
  result,   \* history: what the last call returned
  app,      \* nw: whether the global application exists (application::app())
  callbacks,\* nw: ids of the callbacks held by app.callbacks
  nextId,   \* nw: the id the next Callback gets
  media,    \* nw: per get_user_media call (by callback id): promise, closure, trace
  jobs,     \* nw: callback ids whose promise reaction is queued
  builder,  \* nw: the ShortcutBuilder in the making
  nw        \* nw history: the last nw call, what it saw and what it returned

objvars == <<obj, pre, call, result>>
nwvars  == <<app, callbacks, nextId, media, jobs, builder, nw>>
vars    == <<obj, pre, call, result, app, callbacks, nextId, media, jobs, builder, nw>>

\* Longest slice handed to set_properties.
MaxProps == 2

-----------------------------------------------------------------------------
(* JavaScript values (JsValue).  The payload is always a string so that any *)
(* two values can be compared.                                              *)

JsVal(k, x) == [kind |-> k, v |-> x]

Undefined == JsVal("undefined", "undefined")
Null      == JsVal("null", "null")
JsTrue    == JsVal("boolean", "true")
JsFalse   == JsVal("boolean", "false")
Num1      == JsVal("number", "1")
StrA      == JsVal("string", "a")
Obj1      == JsVal("object", "o1")
Sym1      == JsVal("symbol", "s1")
NoValue   == JsVal("-", "-")

Values == {Undefined, Null, JsTrue, JsFalse, Num1, StrA, Obj1, Sym1}

\* Values written through set_properties in the model.
PropValues == {Num1, StrA}

Props == {"a", "b"}

\* T of get<T> / try_get<T>: the TryFrom<JsValue> implementations used.
TargetTypes == {"JsValue", "String", "f64"}

-----------------------------------------------------------------------------
(* The host object.                                                         *)

Absent      == [kind |-> "absent", value |-> NoValue]
Data(v)     == [kind |-> "data", value |-> v]
Throwing    == [kind |-> "accessor", value |-> NoValue]

Slots       == {Absent, Throwing} \cup {Data(v) : v \in Values}
Integrities == {"extensible", "sealed", "frozen"}
Objects     == [slots : [Props -> Slots], integrity : Integrities]

-----------------------------------------------------------------------------
(* Rust-side results: Result<_, Error>, uniformly shaped.                   *)

Res(t, o, x, e, a) == [tag |-> t, opt |-> o, val |-> x, err |-> e, arg |-> a]

Ok(x)      == Res("Ok", "-", x, "-", "-")
OkSome(x)  == Res("Ok", "Some", x, "-", "-")
OkNone     == Res("Ok", "None", NoValue, "-", "-")
OkUnit     == Res("Ok", "unit", NoValue, "-", "-")
OkBool(b)  == Res("Ok", "-", JsVal("bool", IF b THEN "true" ELSE "false"), "-", "-")
Err(e, a)  == Res("Err", "-", NoValue, e, a)
NoResult   == Res("-", "-", NoValue, "-", "-")

\* `?` on Result<_, JsValue>: From<JsValue> for Error wraps the thrown value.
ErrJsValue == Err("JsValue", "thrown")

Ret(o, r) == [obj |-> o, res |-> r]

-----------------------------------------------------------------------------
(* js_sys::Reflect on an ordinary object (ECMAScript [[Get]], [[Set]],      *)
(* [[Delete]]).  ok = FALSE is a thrown exception, i.e. Err(JsValue).       *)

ReflectGet(o, p) ==
  LET s == o.slots[p] IN
  CASE s.kind = "accessor" -> [obj |-> o, ok |-> FALSE, val |-> NoValue]
    [] s.kind = "absent"   -> [obj |-> o, ok |-> TRUE, val |-> Undefined]
    [] OTHER               -> [obj |-> o, ok |-> TRUE, val |-> s.value]

ReflectSet(o, p, v) ==
  LET s == o.slots[p] IN
  CASE s.kind = "accessor" -> [obj |-> o, ok |-> FALSE, ret |-> FALSE]
    [] o.integrity = "frozen" -> [obj |-> o, ok |-> TRUE, ret |-> FALSE]
    [] s.kind = "absent" /\ o.integrity # "extensible"
                           -> [obj |-> o, ok |-> TRUE, ret |-> FALSE]
    [] OTHER -> [obj |-> [o EXCEPT !.slots[p] = Data(v)], ok |-> TRUE, ret |-> TRUE]

ReflectDeleteProperty(o, p) ==
  LET s == o.slots[p] IN
  CASE s.kind = "absent" -> [obj |-> o, ok |-> TRUE, ret |-> TRUE]
    [] o.integrity # "extensible" -> [obj |-> o, ok |-> TRUE, ret |-> FALSE]
    [] OTHER -> [obj |-> [o EXCEPT !.slots[p] = Absent], ok |-> TRUE, ret |-> TRUE]

-----------------------------------------------------------------------------
(* Conversions from JsValue.                                                *)

\* JavaScript ToNumber (unary plus), as a numeral; "throw" for a Symbol.
ToNumber(v) ==
  CASE v.kind = "undefined" -> "NaN"
    [] v.kind = "null"      -> "0"
    [] v.kind = "boolean"   -> IF v.v = "true" THEN "1" ELSE "0"
    [] v.kind = "number"    -> v.v
    [] v.kind = "string"    -> IF v.v = "1" THEN "1" ELSE "NaN"  \* "a" is no numeral
    [] v.kind = "object"    -> "NaN"
    [] OTHER                -> "throw"

\* T::try_from(js_value): [ok, val].
TryFrom(T, v) ==
  CASE T = "JsValue" -> [ok |-> TRUE, val |-> v]
    [] T = "String"  -> IF v.kind = "string"
                        THEN [ok |-> TRUE, val |-> JsVal("String", v.v)]
                        ELSE [ok |-> FALSE, val |-> NoValue]
    [] OTHER         -> IF ToNumber(v) = "throw"
                        THEN [ok |-> FALSE, val |-> NoValue]
                        ELSE [ok |-> TRUE, val |-> JsVal("f64", ToNumber(v))]

\* JsValue::is_undefined
is_undefined(v) == v.kind = "undefined"

\* Variant of ObjectTryFrom that goes by typeof alone, so that null passes as an object.
ObjectTryFrom_typeof(v) == v.kind \in {"object", "null"}

\* Object::try_from(&JsValue) -> Option<&Object>: Some iff JsValue::is_object.
ObjectTryFrom(v) == v.kind = "object"

-----------------------------------------------------------------------------
(* ObjectExtension for Object.  Each returns [obj, res].                    *)

\* Variant of get that checks for a missing value itself before converting.
get_checked(o, p, T) ==
  LET r == ReflectGet(o, p) IN
  IF ~r.ok THEN Ret(r.obj, ErrJsValue)
  ELSE IF is_undefined(r.val) THEN Ret(r.obj, Err("MissingProperty", p))
  ELSE LET c == TryFrom(T, r.val) IN
       Ret(r.obj, IF c.ok THEN Ok(c.val) ELSE Err("Custom", "try_from"))

get(o, p, T) ==
  LET r == ReflectGet(o, p) IN
  IF ~r.ok THEN Ret(r.obj, ErrJsValue)
  ELSE LET c == TryFrom(T, r.val) IN
       Ret(r.obj, IF c.ok THEN Ok(c.val) ELSE Err("Custom", "try_from"))

\* Variant of try_get that takes null for a missing value as well.
try_get_nullish(o, p, T) ==
  LET r == ReflectGet(o, p) IN
  IF ~r.ok THEN Ret(r.obj, ErrJsValue)
  ELSE IF is_undefined(r.val) \/ r.val = Null THEN Ret(r.obj, OkNone)
  ELSE LET c == TryFrom(T, r.val) IN
       Ret(r.obj, IF c.ok THEN OkSome(c.val) ELSE Err("Custom", "try_from"))

try_get(o, p, T) ==
  LET r == ReflectGet(o, p) IN
  IF ~r.ok THEN Ret(r.obj, ErrJsValue)
  ELSE IF is_undefined(r.val) THEN Ret(r.obj, OkNone)
  ELSE LET c == TryFrom(T, r.val) IN
       Ret(r.obj, IF c.ok THEN OkSome(c.val) ELSE Err("Custom", "try_from"))

get_value(o, p) ==
  LET r == ReflectGet(o, p) IN
  Ret(r.obj, IF r.ok THEN Ok(r.val) ELSE ErrJsValue)

\* Variant of try_get_value comparing loosely (null == undefined).
try_get_value_loose(o, p) ==
  LET r == ReflectGet(o, p) IN
  IF ~r.ok THEN Ret(r.obj, ErrJsValue)
  ELSE IF r.val \in {Undefined, Null} THEN Ret(r.obj, OkNone)
  ELSE Ret(r.obj, OkSome(r.val))

try_get_value(o, p) ==
  LET r == ReflectGet(o, p) IN
  IF ~r.ok THEN Ret(r.obj, ErrJsValue)
  ELSE IF r.val = Undefined THEN Ret(r.obj, OkNone)
  ELSE Ret(r.obj, OkSome(r.val))

\* Variant of get_object that takes the value out of the object when it fails.
get_object_take(o, p) ==
  LET r == ReflectGet(o, p) IN
  IF ~r.ok THEN Ret(r.obj, ErrJsValue)
  ELSE IF ObjectTryFrom(r.val) THEN Ret(r.obj, Ok(r.val))
  ELSE Ret([r.obj EXCEPT !.slots[p] = Absent], Err("MissingProperty", p))

get_object(o, p) ==
  LET r == ReflectGet(o, p) IN
  IF ~r.ok THEN Ret(r.obj, ErrJsValue)
  ELSE IF ObjectTryFrom(r.val) THEN Ret(r.obj, Ok(r.val))
  ELSE Ret(r.obj, Err("MissingProperty", p))

\* T::try_owned_from / T::try_captured_cast_from of a TryCastFromJs type T, whose
\* implementation the caller supplies: `accepts` is its verdict on the value.
TryCastFromJs(v, accepts) ==
  IF accepts THEN [ok |-> TRUE, val |-> JsVal("Cast", v.v)] ELSE [ok |-> FALSE, val |-> NoValue]

try_cast_into(o, p, accepts) ==
  LET r == ReflectGet(o, p) IN
  IF ~r.ok THEN Ret(r.obj, ErrJsValue)
  ELSE IF is_undefined(r.val) THEN Ret(r.obj, OkNone)
  ELSE LET c == TryCastFromJs(r.val, accepts) IN
       Ret(r.obj, IF c.ok THEN OkSome(c.val) ELSE Err("Custom", "try_owned_from"))

try_cast_from(o, p, accepts) ==
  LET r == ReflectGet(o, p) IN
  IF ~r.ok THEN Ret(r.obj, ErrJsValue)
  ELSE IF is_undefined(r.val) THEN Ret(r.obj, OkNone)
  ELSE LET c == TryCastFromJs(r.val, accepts) IN
       Ret(r.obj, IF c.ok THEN OkSome(c.val) ELSE Err("Custom", "try_captured_cast_from"))

try_get_object(o, p) ==
  LET r == ReflectGet(o, p) IN
  IF ~r.ok THEN Ret(r.obj, ErrJsValue)
  ELSE IF ObjectTryFrom(r.val) THEN Ret(r.obj, OkSome(r.val))
  ELSE Ret(r.obj, OkNone)

\* JsValue::as_string / JsValue::as_bool: Some only for a string / a boolean.
as_string(v) == IF v.kind = "string" THEN OkSome(JsVal("String", v.v)) ELSE OkNone
as_bool(v)   == IF v.kind = "boolean" THEN OkSome(JsVal("bool", v.v)) ELSE OkNone

\* crate::utils helpers behind get_string / get_bool (their source is not part of
\* src/): a missing value is MissingProperty, another kind a type mismatch.
try_get_string_from_prop(o, p) ==
  LET r == ReflectGet(o, p) IN
  IF ~r.ok THEN Ret(r.obj, ErrJsValue)
  ELSE IF is_undefined(r.val) THEN Ret(r.obj, Err("MissingProperty", p))
  ELSE IF r.val.kind = "string" THEN Ret(r.obj, Ok(JsVal("String", r.val.v)))
  ELSE Ret(r.obj, Err("TypeMismatch", p))

try_get_bool_from_prop(o, p) ==
  LET r == ReflectGet(o, p) IN
  IF ~r.ok THEN Ret(r.obj, ErrJsValue)
  ELSE IF is_undefined(r.val) THEN Ret(r.obj, Err("MissingProperty", p))
  ELSE IF r.val.kind = "boolean" THEN Ret(r.obj, Ok(JsVal("bool", r.val.v)))
  ELSE Ret(r.obj, Err("TypeMismatch", p))

get_string(o, p) == try_get_string_from_prop(o, p)

\* Variant of try_get_string that reports a value of another kind as an error.
try_get_string_strict(o, p) ==
  LET g == get_value(o, p) IN
  IF g.res.tag = "Err" THEN g
  ELSE IF g.res.val.kind \in {"string", "undefined"} THEN Ret(g.obj, as_string(g.res.val))
  ELSE Ret(g.obj, Err("TypeMismatch", p))

try_get_string(o, p) ==
  LET g == get_value(o, p) IN
  IF g.res.tag = "Err" THEN g ELSE Ret(g.obj, as_string(g.res.val))

\* Variant of get_bool that falls back to false when the value is no boolean.
get_bool_default(o, p) ==
  LET r == ReflectGet(o, p) IN
  IF ~r.ok THEN Ret(r.obj, ErrJsValue)
  ELSE Ret(r.obj, Ok(JsVal("bool", IF r.val.kind = "boolean" THEN r.val.v ELSE "false")))

get_bool(o, p) == try_get_bool_from_prop(o, p)

try_get_bool(o, p) ==
  LET g == get_value(o, p) IN
  IF g.res.tag = "Err" THEN g ELSE Ret(g.obj, as_bool(g.res.val))

\* Variant of set that only defines a property that is not there yet.
set_if_absent(o, p, v) ==
  LET r == ReflectSet(o, p, v) IN
  IF ~r.ok THEN Ret(r.obj, ErrJsValue)
  ELSE IF o.slots[p].kind = "absent" THEN Ret(r.obj, OkBool(r.ret))
  ELSE Ret(o, OkBool(r.ret))

set(o, p, v) ==
  LET r == ReflectSet(o, p, v) IN
  Ret(r.obj, IF r.ok THEN OkBool(r.ret) ELSE ErrJsValue)

\* Variant of delete that reports whether a property existed and was removed.
delete_existed(o, p) ==
  LET r == ReflectDeleteProperty(o, p) IN
  Ret(r.obj, IF r.ok THEN OkBool(r.ret /\ o.slots[p].kind # "absent") ELSE ErrJsValue)

delete(o, p) ==
  LET r == ReflectDeleteProperty(o, p) IN
  Ret(r.obj, IF r.ok THEN OkBool(r.ret) ELSE ErrJsValue)

\* The loop of set_properties from the i-th pair on: `?` leaves at the first Err.
RECURSIVE set_properties_from(_, _, _)
set_properties_from(o, props, i) ==
  IF i > Len(props) THEN Ret(o, OkUnit)
  ELSE LET r == ReflectSet(o, props[i][1], props[i][2]) IN
       IF ~r.ok THEN Ret(r.obj, ErrJsValue)
       ELSE set_properties_from(r.obj, props, i + 1)

\* Variant of set_properties that undoes the writes made before a failing one.
set_properties_rollback(o, props) ==
  LET r == set_properties_from(o, props, 1) IN
  IF r.res.tag = "Err" THEN Ret(o, r.res) ELSE r

set_properties(o, props) == set_properties_from(o, props, 1)

-----------------------------------------------------------------------------
(* The calls.                                                               *)

Call(op, p, T, v, ps) == [op |-> op, prop |-> p, T |-> T, value |-> v, props |-> ps]
NoCall == Call("-", "-", "-", NoValue, <<>>)
Accepts(b) == IF b THEN "accepts" ELSE "rejects"

\* No nw call made: no application, no callback, no builder.
NoBuilder == [state |-> "none", key |-> FALSE, active |-> 0, failed |-> 0]
NoNw == [op |-> "-", res |-> "-", app |-> FALSE, before |-> {},
         active |-> 0, failed |-> 0, order |-> <<>>, info |-> <<>>]
NwIdle ==
  /\ app = FALSE
  /\ callbacks = {}
  /\ nextId = 1
  /\ media = <<>>
  /\ jobs = {}
  /\ builder = NoBuilder
  /\ nw = NoNw

Do(c, r) ==
  /\ call' = c
  /\ pre' = obj
  /\ obj' = r.obj
  /\ result' = r.res
  /\ UNCHANGED nwvars

\* Slices of at most MaxProps (name, value) pairs.
PropPairs == Props \X PropValues
PropSlices == UNION {[1..n -> PropPairs] : n \in 0..MaxProps}

Init ==
  /\ obj \in Objects
  /\ pre = obj
  /\ call = NoCall
  /\ result = NoResult
  /\ NwIdle

Get == \E p \in Props, T \in TargetTypes :
  Do(Call("get", p, T, NoValue, <<>>), get(obj, p, T))

TryGet == \E p \in Props, T \in TargetTypes :
  Do(Call("try_get", p, T, NoValue, <<>>), try_get(obj, p, T))

GetValue == \E p \in Props :
  Do(Call("get_value", p, "-", NoValue, <<>>), get_value(obj, p))

TryGetValue == \E p \in Props :
  Do(Call("try_get_value", p, "-", NoValue, <<>>), try_get_value(obj, p))

GetObject == \E p \in Props :
  Do(Call("get_object", p, "-", NoValue, <<>>), get_object(obj, p))

TryCastInto == \E p \in Props, b \in BOOLEAN :
  Do(Call("try_cast_into", p, Accepts(b), NoValue, <<>>), try_cast_into(obj, p, b))

TryCastFrom == \E p \in Props, b \in BOOLEAN :
  Do(Call("try_cast_from", p, Accepts(b), NoValue, <<>>), try_cast_from(obj, p, b))

TryGetObject == \E p \in Props :
  Do(Call("try_get_object", p, "-", NoValue, <<>>), try_get_object(obj, p))

GetString == \E p \in Props :
  Do(Call("get_string", p, "-", NoValue, <<>>), get_string(obj, p))

TryGetString == \E p \in Props :
  Do(Call("try_get_string", p, "-", NoValue, <<>>), try_get_string(obj, p))

GetBool == \E p \in Props :
  Do(Call("get_bool", p, "-", NoValue, <<>>), get_bool(obj, p))

TryGetBool == \E p \in Props :
  Do(Call("try_get_bool", p, "-", NoValue, <<>>), try_get_bool(obj, p))

Set == \E p \in Props, v \in Values :
  Do(Call("set", p, "-", v, <<>>), set(obj, p, v))

SetProperties == \E ps \in PropSlices :
  Do(Call("set_properties", "-", "-", NoValue, ps), set_properties(obj, ps))

Delete == \E p \in Props :
  Do(Call("delete", p, "-", NoValue, <<>>), delete(obj, p))

Next ==
  \/ Get
  \/ TryGet
  \/ GetValue
  \/ TryGetValue
  \/ GetObject
  \/ TryCastInto
  \/ TryCastFrom
  \/ TryGetObject
  \/ GetString
  \/ TryGetString
  \/ GetBool
  \/ TryGetBool
  \/ Set
  \/ SetProperties
  \/ Delete

Spec == Init /\ [][Next]_vars

TypeOK ==
  /\ obj \in Objects
  /\ pre \in Objects
  /\ call.prop \in Props \cup {"-"}
  /\ result.tag \in {"Ok", "Err", "-"}

-----------------------------------------------------------------------------
(* Vocabulary of the properties.  `pre` is the object the last call was     *)
(* made on, `obj` the object it left.                                       *)

IsAbsent(o, p)      == o.slots[p].kind = "absent"
IsThrowing(o, p)    == o.slots[p].kind = "accessor"
HoldsValue(o, p)    == o.slots[p].kind = "data"
ReadsUndefined(o, p) == IsAbsent(o, p) \/ o.slots[p] = Data(Undefined)
ReadsNull(o, p)     == o.slots[p] = Data(Null)

Called(op) == call.op = op

\* The Rust value a scalar JavaScript value v reads back as through get::<K>.
Scalars == {v \in Values : v.kind \in {"boolean", "number", "string"}}
ScalarKinds(v) ==
  {"JsValue"} \cup (IF v.kind = "string" THEN {"String"} ELSE {})
              \cup (IF v.kind = "number" THEN {"f64"} ELSE {})
AsRust(K, v) == IF K = "JsValue" THEN v ELSE JsVal(K, v.v)

-----------------------------------------------------------------------------
(* C1: for a property name p with no slot, get<T>(p) returns               *)
(* Err(MissingProperty(p)).                                                 *)
\* The claim as stated.
C1_GetMissingIsMissingProperty ==
  (Called("get") /\ IsAbsent(pre, call.prop))
    => result = Err("MissingProperty", call.prop)

\* C1 as amended: for a property name p with no slot, get_object(p) returns
\* Err(MissingProperty(p)), while get<T>(p) returns what T::try_from(undefined)
\* gives and never MissingProperty: Err(Custom) for String, Ok(undefined) for
\* JsValue, Ok(NaN) for f64.
C1_GetMissing ==
  /\ (Called("get_object") /\ IsAbsent(pre, call.prop))
       => result = Err("MissingProperty", call.prop)
  /\ (Called("get") /\ IsAbsent(pre, call.prop))
       => /\ result.err # "MissingProperty"
          /\ call.T = "String"  => result = Err("Custom", "try_from")
          /\ call.T = "JsValue" => result = Ok(Undefined)
          /\ call.T = "f64"     => result = Ok(JsVal("f64", "NaN"))

C1_Witness ==
  /\ Called("get") /\ call.T = "String"
  /\ IsAbsent(pre, call.prop)
  /\ result = Err("Custom", "try_from")

-----------------------------------------------------------------------------
(* C2: delete(p) on a slot that was set returns Ok(true) and leaves the     *)
(* slot absent; delete(p) on an absent slot returns Ok(false).              *)
\* The claim as stated.
C2_DeleteReportsExistence ==
  Called("delete") =>
    /\ HoldsValue(pre, call.prop)
         => (result = OkBool(TRUE) /\ IsAbsent(obj, call.prop))
    /\ IsAbsent(pre, call.prop) => result = OkBool(FALSE)

\* C2 as amended: delete(p) returns Ok(true) and leaves slot p absent both when
\* the slot exists and is configurable (as a slot made by set on an extensible
\* object is) and when it was absent already; it returns Ok(false), leaving the
\* slot as it was, when the slot exists on a sealed or frozen object.
C2_Delete ==
  Called("delete") =>
    LET p == call.prop IN
    /\ IsAbsent(pre, p) => (result = OkBool(TRUE) /\ obj = pre)
    /\ (~IsAbsent(pre, p) /\ pre.integrity = "extensible")
         => /\ result = OkBool(TRUE)
            /\ obj = [pre EXCEPT !.slots[p] = Absent]
            /\ get_value(obj, p).res = Ok(Undefined)
    /\ (~IsAbsent(pre, p) /\ pre.integrity # "extensible")
         => (result = OkBool(FALSE) /\ obj = pre)

C2_Witness ==
  /\ Called("delete")
  /\ HoldsValue(pre, call.prop) /\ pre.integrity = "extensible"
  /\ result = OkBool(TRUE)
  /\ IsAbsent(obj, call.prop)

-----------------------------------------------------------------------------
(* C3: try_get<T>(p) returns Ok(None) when slot p is absent and             *)
(* Ok(Some(v)) after set(p, v) for v convertible to T; the result depends   *)
(* only on the current content of slot p.                                   *)
\* What try_get<T> returns for a given content of the slot.
TryGetOf(slot, T) ==
  CASE slot.kind = "accessor" -> ErrJsValue
    [] slot.kind = "absent"   -> OkNone
    [] slot.value = Undefined -> OkNone
    [] OTHER -> IF TryFrom(T, slot.value).ok
                THEN OkSome(TryFrom(T, slot.value).val)
                ELSE Err("Custom", "try_from")

\* The claim as stated (for a set that returned without an error).
C3_TryGetAfterSetIsSome ==
  /\ (Called("try_get") /\ IsAbsent(pre, call.prop)) => result = OkNone
  /\ (Called("set") /\ result.tag = "Ok")
       => \A T \in TargetTypes :
            TryFrom(T, call.value).ok
              => try_get(obj, call.prop, T).res = OkSome(TryFrom(T, call.value).val)

\* C3 as amended: try_get<T>(p) returns Ok(None) when slot p reads as undefined
\* (absent, or holding undefined), and Ok(Some(v)) after a set(p, v) that
\* returned Ok(true) for a value v other than undefined that is convertible to
\* T; the result depends only on the current content of slot p.
C3_TryGet ==
  /\ Called("try_get")
       => /\ result = TryGetOf(pre.slots[call.prop], call.T)
          /\ ReadsUndefined(pre, call.prop) => result = OkNone
  /\ (Called("set") /\ result = OkBool(TRUE) /\ call.value # Undefined)
       => \A T \in TargetTypes :
            TryFrom(T, call.value).ok
              => try_get(obj, call.prop, T).res = OkSome(TryFrom(T, call.value).val)

C3_Witness ==
  /\ Called("set") /\ call.value = StrA /\ result = OkBool(TRUE)
  /\ pre.slots[call.prop] # Data(StrA)
  /\ try_get(obj, call.prop, "String").res = OkSome(JsVal("String", "a"))

-----------------------------------------------------------------------------
(* C4: for every prior state of slot p (absent or holding a value) and      *)
(* every scalar v of kind K, set(p, v) followed by get::<K>(p) returns      *)
(* Ok(v).                                                                   *)
RoundTrips(o, p, v) ==
  \A K \in ScalarKinds(v) : get(o, p, K).res = Ok(AsRust(K, v))

\* The claim as stated.
C4_SetThenGetRoundTrips ==
  (Called("set") /\ call.value \in Scalars /\ ~IsThrowing(pre, call.prop))
    => RoundTrips(obj, call.prop, call.value)

\* C4 as amended: for every prior state of slot p and every scalar v of kind K,
\* when set(p, v) returns Ok(true) a following get::<K>(p) returns Ok(v); on a
\* frozen object, or for a new slot of a non-extensible object, set returns
\* Ok(false) and leaves the object as it was.
C4_SetThenGet ==
  (Called("set") /\ call.value \in Scalars /\ ~IsThrowing(pre, call.prop))
    => /\ result \in {OkBool(TRUE), OkBool(FALSE)}
       /\ result = OkBool(TRUE) => RoundTrips(obj, call.prop, call.value)
       /\ result = OkBool(FALSE) => obj = pre
       /\ result = OkBool(FALSE)
            <=> \/ pre.integrity = "frozen"
                \/ pre.integrity = "sealed" /\ IsAbsent(pre, call.prop)

C4_Witness ==
  /\ Called("set") /\ call.value = Num1 /\ result = OkBool(TRUE)
  /\ pre.slots[call.prop] = Data(StrA)
  /\ get(obj, call.prop, "f64").res = Ok(JsVal("f64", "1"))

-----------------------------------------------------------------------------
(* C5: set_properties(props) is set on each pair in slice order, stopping   *)
(* at the first failing write; on success every listed slot reads its       *)
(* value, on a failure at the i-th write the error is returned, the writes  *)
(* before it stay applied and the writes after it are not made.             *)
\* set called on each pair in turn from the i-th on, stopping at the first Err.
RECURSIVE SetEach(_, _, _)
SetEach(o, ps, i) ==
  IF i > Len(ps) THEN Ret(o, OkUnit)
  ELSE LET r == set(o, ps[i][1], ps[i][2]) IN
       IF r.res.tag = "Err" THEN Ret(r.obj, r.res) ELSE SetEach(r.obj, ps, i + 1)

\* The first pair whose write throws (Len + 1 when none does).
FirstThrow(o, ps) ==
  LET bad == {i \in 1..Len(ps) : IsThrowing(o, ps[i][1])} IN
  IF bad = {} THEN Len(ps) + 1 ELSE CHOOSE i \in bad : \A j \in bad : i <= j

\* Among the first n pairs: whether one names p, and the value of the last that does.
Listed(ps, n, p)    == \E i \in 1..n : ps[i][1] = p
LastValue(ps, n, p) ==
  LET is == {i \in 1..n : ps[i][1] = p} IN
  ps[CHOOSE i \in is : \A j \in is : j <= i][2]

\* Whether the object takes a write to p (Reflect.set returns true).
StoreAccepts(o, p) ==
  \/ o.integrity = "extensible"
  \/ o.integrity = "sealed" /\ HoldsValue(o, p)

\* The claim as stated.
C5_SetPropertiesAllReadable ==
  Called("set_properties") =>
    LET ps == call.props
        f  == FirstThrow(pre, ps) IN
    /\ result = (IF f <= Len(ps) THEN ErrJsValue ELSE OkUnit)
    /\ result = OkUnit
         => \A i \in 1..Len(ps) :
              get_value(obj, ps[i][1]).res = Ok(LastValue(ps, Len(ps), ps[i][1]))
    /\ result.tag = "Err"
         => \A p \in Props :
              obj.slots[p] = IF Listed(ps, f - 1, p)
                             THEN Data(LastValue(ps, f - 1, p)) ELSE pre.slots[p]

\* C5 as amended: set_properties(props) is set on each pair in slice order with
\* the boolean each write returns ignored, stopping at the first write that
\* returns Err.  On Ok(()) every listed slot whose write the object accepted
\* reads the value of the last pair naming it, and a slot whose write the
\* object refused (a frozen object, a new slot of a non-extensible one) is left
\* as it was; when the i-th write returns Err that error is returned, the
\* writes before it stay applied and the writes after it are not made.
C5_SetProperties ==
  Called("set_properties") =>
    LET ps == call.props
        f  == FirstThrow(pre, ps)
        e  == SetEach(pre, ps, 1) IN
    /\ result = (IF f <= Len(ps) THEN ErrJsValue ELSE OkUnit)
    /\ obj.integrity = pre.integrity
    /\ \A p \in Props :
         obj.slots[p] = IF Listed(ps, f - 1, p) /\ StoreAccepts(pre, p)
                        THEN Data(LastValue(ps, f - 1, p)) ELSE pre.slots[p]
    /\ obj = e.obj /\ result = e.res

\* A failure at the second write with the first write left applied.
C5_Witness ==
  /\ Called("set_properties") /\ Len(call.props) = 2
  /\ result = ErrJsValue
  /\ IsAbsent(pre, call.props[1][1])
  /\ obj.slots[call.props[1][1]] = Data(call.props[1][2])
  /\ IsThrowing(pre, call.props[2][1])

-----------------------------------------------------------------------------
(* C6: a failed get never mutates the object: whenever a getter returns     *)
(* Err, every slot holds what it held before the call.                      *)
Getters ==
  {"get", "try_get", "get_value", "try_get_value", "get_object", "try_get_object",
   "get_string", "try_get_string", "get_bool", "try_get_bool",
   "try_cast_into", "try_cast_from"}

\* C6: after a getter call that returned Err the object is the object the call
\* was made on.
C6_FailedGetLeavesObject ==
  (call.op \in Getters /\ result.tag = "Err") => obj = pre

\* get_object failing on a slot that holds a value which is no object.
C6_Witness ==
  /\ Called("get_object") /\ result = Err("MissingProperty", call.prop)
  /\ pre.slots[call.prop] = Data(StrA)
  /\ obj.slots[call.prop] = Data(StrA)

-----------------------------------------------------------------------------
(* C7: get_object(p) returns Err(MissingProperty(p)) when slot p is absent  *)
(* and when it holds a value that is not object-kind, and Ok(object)        *)
(* exactly when the slot holds an object-kind value.                        *)
C7_GetObject ==
  Called("get_object") =>
    LET p == call.prop IN
    /\ IsAbsent(pre, p) => result = Err("MissingProperty", p)
    /\ (HoldsValue(pre, p) /\ pre.slots[p].value.kind # "object")
         => result = Err("MissingProperty", p)
    /\ result.tag = "Ok"
         <=> (HoldsValue(pre, p) /\ pre.slots[p].value.kind = "object")
    /\ result.tag = "Ok" => result = Ok(pre.slots[p].value)

\* get_object on a slot holding null.
C7_Witness ==
  /\ Called("get_object") /\ ReadsNull(pre, call.prop)
  /\ result = Err("MissingProperty", call.prop)

-----------------------------------------------------------------------------
(* C8: try_cast_into<T>(p) and try_cast_from<T>(p) return Ok(None) when     *)
(* the slot value is null or undefined; a conversion is attempted only for  *)
(* values that are neither.                                                 *)
C8_CastNullOrUndefinedIsNone ==
  (call.op \in {"try_cast_into", "try_cast_from"}
     /\ (ReadsUndefined(pre, call.prop) \/ ReadsNull(pre, call.prop)))
    => result = OkNone

-----------------------------------------------------------------------------
(* C9: try_get / try_get_value never conflate absent and null: on a slot    *)
(* holding null try_get_value(p) returns Ok(Some(null)) and try_get<T>(p)   *)
(* returns the conversion of null (Ok(Some(_)) or Err); Ok(None) is         *)
(* returned only when the slot reads as undefined.                          *)
C9_NullIsNotAbsent ==
  /\ (Called("try_get_value") /\ ReadsNull(pre, call.prop)) => result = OkSome(Null)
  /\ (Called("try_get") /\ ReadsNull(pre, call.prop))
       => /\ result # OkNone
          /\ result = (IF TryFrom(call.T, Null).ok
                       THEN OkSome(TryFrom(call.T, Null).val)
                       ELSE Err("Custom", "try_from"))
  /\ (call.op \in {"try_get", "try_get_value"} /\ result = OkNone)
       => ReadsUndefined(pre, call.prop)

C9_Witness ==
  /\ Called("try_get_value") /\ ReadsNull(pre, call.prop)
  /\ result = OkSome(Null)

-----------------------------------------------------------------------------
(* C10: get_bool(p) on a slot holding a string returns Err, never           *)
(* Ok(false); get_bool / get_string return Ok only when the slot holds      *)
(* exactly a boolean / a string.                                            *)
C10_NoSilentDefault ==
  /\ (Called("get_bool") /\ HoldsValue(pre, call.prop)
        /\ pre.slots[call.prop].value.kind = "string")
       => (result.tag = "Err" /\ result # Ok(JsVal("bool", "false")))
  /\ Called("get_bool")
       => /\ result.tag = "Ok"
               <=> (HoldsValue(pre, call.prop)
                      /\ pre.slots[call.prop].value.kind = "boolean")
          /\ result.tag = "Ok" => result = Ok(JsVal("bool", pre.slots[call.prop].value.v))
  /\ Called("get_string")
       => /\ result.tag = "Ok"
               <=> (HoldsValue(pre, call.prop)
                      /\ pre.slots[call.prop].value.kind = "string")
          /\ result.tag = "Ok" => result = Ok(JsVal("String", pre.slots[call.prop].value.v))

C10_Witness ==
  /\ Called("get_bool") /\ pre.slots[call.prop] = Data(StrA)
  /\ result = Err("TypeMismatch", call.prop)

-----------------------------------------------------------------------------
(* C13: try_get_object, try_get_string and try_get_bool never report a kind *)
(* mismatch as an error: for a slot holding a value of another kind (null   *)
(* included) they return Ok(None), as for an absent slot, and they return   *)
(* Ok(Some(v)) exactly when the slot holds a value of the requested kind.   *)
\* The kind of JavaScript value each of the three asks for, and how it hands it back.
KindAsked(op) ==
  CASE op = "try_get_object" -> "object"
    [] op = "try_get_string" -> "string"
    [] OTHER                 -> "boolean"
Handed(op, v) ==
  CASE op = "try_get_object" -> v
    [] op = "try_get_string" -> JsVal("String", v.v)
    [] OTHER                 -> JsVal("bool", v.v)

\* C13: a kind mismatch is Ok(None), the requested kind is Ok(Some(v)).
C13_MismatchIsNone ==
  call.op \in {"try_get_object", "try_get_string", "try_get_bool"} =>
    LET p == call.prop
        s == pre.slots[p] IN
    /\ IsAbsent(pre, p) => result = OkNone
    /\ (HoldsValue(pre, p) /\ s.value.kind # KindAsked(call.op)) => result = OkNone
    /\ (HoldsValue(pre, p) /\ s.value.kind = KindAsked(call.op))
         => result = OkSome(Handed(call.op, s.value))
    /\ result.opt = "Some"
         <=> (HoldsValue(pre, p) /\ s.value.kind = KindAsked(call.op))
    /\ result.tag = "Err" => IsThrowing(pre, p)

\* try_get_string on a slot holding null.
C13_Witness ==
  /\ Called("try_get_string") /\ ReadsNull(pre, call.prop)
  /\ result = OkNone

-----------------------------------------------------------------------------
(* nw: the application's callback registry, media::get_user_media,          *)
(* media::render_media and shortcut::ShortcutBuilder.                       *)
(*                                                                          *)
(* A Callback is known by its id.  get_user_media is synchronous; the       *)
(* promise it got from getUserMedia settles later, and the reaction it      *)
(* attached with then() runs later still, as a job of its own.              *)

\* Callback ids handed out in a run.
MaxIds == 2

ErrApp     == "Err(app is not initialized)"
ErrJs      == "Err(JsValue)"
ErrClosure == "Err(callback_.closure() failed)"

\* app.callbacks (workflow_wasm's CallbackMap, whose source is not part of
\* src/): retain keeps a callback under its id, remove drops the entry of an id.
retain(cbs, id) == cbs \cup {id}
remove(cbs, id) == cbs \ {id}

\* Variant of closure that calls the user callback and leaves its entry in place.
closure_keep(cbs, id, value) ==
  [callbacks |-> cbs,
   trace |-> <<IF value = "stream" THEN "callback(Some)" ELSE "callback(None)">>]

\* The closure get_user_media sets on its Callback: what it does, in order, when
\* it is called with `value`.
closure(cbs, id, value) ==
  [callbacks |-> remove(cbs, id),
   trace |-> <<"remove", IF value = "stream" THEN "callback(Some)" ELSE "callback(None)">>]

\* promise.then(binding): the closure is the promise's fulfilment reaction, and
\* nothing is attached for a rejection.
then_reacts(settled) == settled = "fulfilled"

NoEntry == [promise |-> "-", value |-> "-", via |-> "-", element |-> "-", trace |-> <<>>]

\* get_user_media with callback id `id` at hand; env is what the host does:
\* navigator.mediaDevices or getUserMedia may throw.
get_user_media(hasApp, cbs, id, env) ==
  IF ~hasApp THEN [res |-> ErrApp, callbacks |-> cbs, entry |-> NoEntry]
  ELSE IF env \in {"media_devices_err", "get_user_media_err"}
  THEN [res |-> ErrJs, callbacks |-> cbs, entry |-> NoEntry]
  ELSE LET callback_ == [id |-> id, closure_set |-> TRUE] IN
       IF ~callback_.closure_set
       THEN [res |-> ErrClosure, callbacks |-> cbs, entry |-> NoEntry]
       ELSE [res |-> "Ok",
             callbacks |-> retain(cbs, callback_.id),
             entry |-> [promise |-> "pending", value |-> "-", via |-> "get_user_media",
                        element |-> "-", trace |-> <<"then", "retain">>]]

\* The callback render_media hands to get_user_media: with a stream it looks the
\* element up (unwrap: a missing element panics), sets the stream on a video
\* element or logs an error, then calls the user's callback.
render_callback(arg, element) ==
  IF arg = "callback(None)" THEN <<"user(None)">>
  ELSE CASE element = "missing" -> <<"panic">>
         [] element = "video"   -> <<"set_src_object", "user(Some)">>
         [] OTHER               -> <<"log_error", "user(Some)">>

render_media(hasApp, cbs, id, env, element) ==
  LET r == get_user_media(hasApp, cbs, id, env) IN
  IF r.res # "Ok" THEN r
  ELSE [r EXCEPT !.entry.via = "render_media", !.entry.element = element]

Envs     == {"ok", "media_devices_err", "get_user_media_err"}
Elements == {"video", "div", "missing"}

NwCall(op, r, ord) ==
  [op |-> op, res |-> r, app |-> app, before |-> callbacks,
   active |-> builder.active, failed |-> builder.failed, order |-> ord, info |-> <<>>]

\* Application::new(): the global application comes to exist.
ApplicationNew ==
  /\ ~app
  /\ app' = TRUE
  /\ nw' = NwCall("Application::new", "Ok", <<>>)
  /\ UNCHANGED objvars
  /\ UNCHANGED <<callbacks, nextId, media, jobs, builder>>

Started(op, r) ==
  /\ callbacks' = r.callbacks
  /\ media' = IF r.entry = NoEntry THEN media ELSE media @@ (nextId :> r.entry)
  /\ nextId' = IF r.entry = NoEntry THEN nextId ELSE nextId + 1
  /\ nw' = NwCall(op, r.res, <<>>)
  /\ UNCHANGED objvars
  /\ UNCHANGED <<app, jobs, builder>>

GetUserMedia == \E env \in Envs :
  /\ nextId <= MaxIds
  /\ Started("get_user_media", get_user_media(app, callbacks, nextId, env))

RenderMedia == \E env \in Envs, el \in Elements :
  /\ nextId <= MaxIds
  /\ Started("render_media", render_media(app, callbacks, nextId, env, el))

\* The host settles a getUserMedia promise: fulfilled with a MediaStream (or, as
\* the closure provides for, with another value) or rejected.
PromiseSettles == \E id \in DOMAIN media, how \in {"fulfilled", "rejected"},
                     v \in {"stream", "other"} :
  /\ media[id].promise = "pending"
  /\ how = "rejected" => v = "other"
  /\ media' = [media EXCEPT ![id].promise = how,
                            ![id].value = IF how = "fulfilled" THEN v ELSE "-"]
  /\ jobs' = IF then_reacts(how) THEN jobs \cup {id} ELSE jobs
  /\ nw' = NwCall("settle", how, <<>>)
  /\ UNCHANGED objvars
  /\ UNCHANGED <<app, callbacks, nextId, builder>>

\* The queued reaction runs: the closure, and within it the callback it calls.
ReactionRuns == \E id \in jobs :
  LET c     == closure(callbacks, id, media[id].value)
      inner == IF media[id].via = "render_media"
               THEN render_callback(c.trace[Len(c.trace)], media[id].element)
               ELSE <<>> IN
  /\ callbacks' = c.callbacks
  /\ media' = [media EXCEPT ![id].trace = @ \o c.trace \o inner]
  /\ jobs' = jobs \ {id}
  /\ nw' = NwCall("closure", "Ok", <<>>)
  /\ UNCHANGED objvars
  /\ UNCHANGED <<app, nextId, builder>>

\* ShortcutBuilder::new(), key(), active(), failed(): the builder and the ids of
\* the callbacks it holds (0: none).  active() and failed() make a Callback each
\* and replace the one set before.
ShortcutBuilderNew ==
  /\ builder.state = "none"
  /\ builder' = [state |-> "building", key |-> FALSE, active |-> 0, failed |-> 0]
  /\ nw' = NwCall("ShortcutBuilder::new", "Ok", <<>>)
  /\ UNCHANGED objvars
  /\ UNCHANGED <<app, callbacks, nextId, media, jobs>>

Key ==
  /\ builder.state = "building"
  /\ ~builder.key
  /\ builder' = [builder EXCEPT !.key = TRUE]
  /\ nw' = NwCall("key", "Ok", <<>>)
  /\ UNCHANGED objvars
  /\ UNCHANGED <<app, callbacks, nextId, media, jobs>>

Active ==
  /\ builder.state = "building"
  /\ nextId <= MaxIds
  /\ builder' = [builder EXCEPT !.active = nextId]
  /\ nextId' = nextId + 1
  /\ nw' = NwCall("active", "Ok", <<>>)
  /\ UNCHANGED objvars
  /\ UNCHANGED <<app, callbacks, media, jobs>>

Failed ==
  /\ builder.state = "building"
  /\ nextId <= MaxIds
  /\ builder' = [builder EXCEPT !.failed = nextId]
  /\ nextId' = nextId + 1
  /\ nw' = NwCall("failed", "Ok", <<>>)
  /\ UNCHANGED objvars
  /\ UNCHANGED <<app, callbacks, media, jobs>>

\* One callback of build(): nothing to do when it is not set; otherwise the
\* application is needed and the callback is retained.
build_retain(r, hasApp, id, what) ==
  IF r.res # "Ok" \/ id = 0 THEN r
  ELSE IF ~hasApp THEN [r EXCEPT !.res = ErrApp]
  ELSE [r EXCEPT !.callbacks = retain(@, id), !.order = Append(@, what)]

\* Variant of build that retains the failed callback before the active one.
build_failed_first(b, hasApp, cbs) ==
  LET r0 == [res |-> "Ok", callbacks |-> cbs, order |-> <<>>, info |-> <<>>]
      r1 == build_retain(r0, hasApp, b.failed, "retain(failed)")
      r2 == build_retain(r1, hasApp, b.active, "retain(active)") IN
  IF r2.res # "Ok" THEN r2
  ELSE [r2 EXCEPT !.order = Append(@, "Shortcut::new")]

\* ShortcutBuilder::build(): active callback, then failed callback, then the
\* nw_sys Shortcut.
build(b, hasApp, cbs) ==
  LET r0 == [res |-> "Ok", callbacks |-> cbs, order |-> <<>>, info |-> <<>>]
      r1 == build_retain(r0, hasApp, b.active, "retain(active)")
      r2 == build_retain(r1, hasApp, b.failed, "retain(failed)") IN
  IF r2.res # "Ok" THEN r2
  ELSE [r2 EXCEPT !.order = Append(@, "Shortcut::new")]

\* ShortcutBuilder::finalize(): the nw_sys Shortcut, and the callbacks handed
\* back in the ShortcutInfo.
finalize(b, hasApp, cbs) ==
  [res |-> "Ok", callbacks |-> cbs, order |-> <<"Shortcut::new">>,
   info |-> <<b.active, b.failed>>]

Built(op, r) ==
  /\ builder.state = "building"
  /\ callbacks' = r.callbacks
  /\ builder' = NoBuilder
  /\ nw' = [NwCall(op, r.res, r.order) EXCEPT !.info = r.info]
  /\ UNCHANGED objvars
  /\ UNCHANGED <<app, nextId, media, jobs>>

Build    == Built("build", build(builder, app, callbacks))
Finalize == Built("finalize", finalize(builder, app, callbacks))

NwInit ==
  /\ obj = [slots |-> [p \in Props |-> Absent], integrity |-> "extensible"]
  /\ pre = obj
  /\ call = NoCall
  /\ result = NoResult
  /\ NwIdle

NwNext ==
  \/ ApplicationNew
  \/ GetUserMedia
  \/ RenderMedia
  \/ PromiseSettles
  \/ ReactionRuns
  \/ ShortcutBuilderNew
  \/ Key
  \/ Active
  \/ Failed
  \/ Build
  \/ Finalize

SpecNw == NwInit /\ [][NwNext]_vars

NwTypeOK ==
  /\ app \in BOOLEAN
  /\ callbacks \subseteq 1..MaxIds
  /\ nextId \in 1..(MaxIds + 1)
  /\ DOMAIN media \subseteq 1..MaxIds
  /\ jobs \subseteq DOMAIN media
  /\ builder.state \in {"none", "building"}

-----------------------------------------------------------------------------
(* Claims about nw, checked under SpecNw.                                   *)

Positions(t, events) == {i \in 1..Len(t) : t[i] \in events}

ClosureCalls == {"callback(Some)", "callback(None)"}
UserCalls    == {"user(Some)", "user(None)"}

\* What the closure of `id` must hand to its callback.
Delivered(id) == IF media[id].value = "stream" THEN "callback(Some)" ELSE "callback(None)"

\* The closure of `id` has been invoked.
Invoked(id) == Positions(media[id].trace, ClosureCalls \cup {"remove"}) # {}

\* C11: the closure get_user_media registers runs at most once per call; when it
\* runs it first removes its own entry from the registry and then calls the
\* callback exactly once, with Some for a MediaStream and None otherwise;
\* afterwards the registry holds no entry for its id.
C11_OneShot ==
  \A id \in DOMAIN media :
    LET t       == media[id].trace
        removes == Positions(t, {"remove"})
        calls   == Positions(t, ClosureCalls) IN
    /\ Cardinality(removes) <= 1
    /\ Cardinality(calls) <= 1
    /\ Invoked(id) =>
         /\ \E i \in removes : i + 1 \in calls /\ t[i + 1] = Delivered(id)
         /\ id \notin callbacks

C11_Witness ==
  \E id \in DOMAIN media :
    /\ media[id].via = "get_user_media"
    /\ media[id].value = "stream"
    /\ Positions(media[id].trace, {"callback(Some)"}) # {}
    /\ id \notin callbacks

\* The user's callback of call `id` has been called exactly once.
UserCalledOnce(id) ==
  Cardinality(Positions(media[id].trace,
                        IF media[id].via = "render_media" THEN UserCalls
                        ELSE ClosureCalls)) = 1

\* C12: once the promise of a successful get_user_media call has settled,
\* fulfilled or rejected, and no reaction of it is left to run, the user
\* callback has been called exactly once and the entry the call retained is
\* gone from the registry.
C12_SettledCompletes ==
  \A id \in DOMAIN media :
    (media[id].promise \in {"fulfilled", "rejected"} /\ id \notin jobs)
      => (UserCalledOnce(id) /\ id \notin callbacks)

IdsSet(a, f) == {a, f} \ {0}

====
